---- MODULE Spec2Model ----
(***************************************************************************)
(* Model of examples/hyperparam/search_hyperopt.py: the train() command    *)
(* evaluates a zero-epoch null model, runs fmin over eval() for max_runs   *)
(* evaluations, then scans the results file for the best run.              *)
(*                                                                         *)
(* The external collaborators (mlflow.projects.run, the tracking server,   *)
(* the training job, hyperopt's fmin) are the environment: the job's exit  *)
(* status and the metrics it logged are chosen nondeterministically.       *)
(***************************************************************************)
EXTENDS Integers, Sequences, FiniteSets, TLC

\* Largest budget (--max-runs) the model explores.
MaxRuns == 2
\* Largest finite loss value a training job reports.
MaxLoss == 1

VARIABLES
    pc,               \* position of train() / eval()
    max_runs,         \* --max-runs
    outer_status,     \* status of the run opened by mlflow.start_run()
    tmp_exists,       \* the directory made by tempfile.mkdtemp() exists
    jobs,             \* runs launched by mlflow.projects.run, in launch order
    p,                \* index in jobs of the run eval() is working on (0: none)
    nepochs,          \* closure of the current eval: number of epochs
    null_loss,        \* closure: null_train_loss, null_valid_loss, null_test_loss
    return_all,       \* closure: return_all
    training_run,     \* eval local: metrics of tracking_client.get_run(p.run_id)
    loss,             \* eval locals train_loss, valid_loss, test_loss
    outer_metrics,    \* mlflow.log_metric calls on the outer run, in order
    results,          \* lines of the file at results_path, each split on " "
    evals,            \* number of objective calls fmin has completed
    returned,         \* the values eval returned to fmin, in order
    best,             \* best_val_train, best_val_valid, best_val_test, best_run
    best_run_file,    \* content of best_run.txt (<<>>: not written)
    artifacts,        \* mlflow.log_artifact calls: [dir, content]
    job_outcome,      \* two-run model: what the job of a parameter vector does
    runs              \* two-run model: the two executions of train()

vars == <<pc, max_runs, outer_status, tmp_exists, jobs, p, nepochs, null_loss,
          return_all, training_run, loss, outer_metrics, results, evals, returned, best,
          best_run_file, artifacts, job_outcome, runs>>

\* The variables of the two-run model, which the single-run model leaves alone.
pair_vars == <<job_outcome, runs>>

----------------------------------------------------------------------------
(* Python floats: finite numbers, math.inf and NaN.                        *)

Num(n) == [kind |-> "num", n |-> n]
Inf == [kind |-> "inf", n |-> 0]
NaN == [kind |-> "nan", n |-> 0]

\* The float comparison a < b: false whenever an operand is NaN.
Lt(a, b) ==
    /\ a.kind = "num"
    /\ \/ b.kind = "inf"
       \/ b.kind = "num" /\ a.n < b.n

\* PyMin with its arguments taken in the other order: min(b, a).
PyMinArgsSwapped(a, b) == IF Lt(a, b) THEN a ELSE b

\* The builtin min(a, b): keeps the first argument unless the second is smaller.
PyMin(a, b) == IF Lt(b, a) THEN b ELSE a

\* "{}".format(x) of a float.
FloatStr(x) ==
    IF x.kind = "inf" THEN "inf"
    ELSE IF x.kind = "nan" THEN "nan"
    ELSE ToString(x.n) \o ".0"

\* float(s) of a token of the results file.
ParseFloat(s) ==
    IF s = "inf" THEN Inf
    ELSE IF s = "nan" THEN NaN
    ELSE Num(CHOOSE n \in 0..(MaxLoss + 1) : ToString(n) \o ".0" = s)

Splits == {"train", "val", "test"}

\* Values a job can have logged for val_<metric>.
Losses == {Num(n) : n \in 0..MaxLoss} \cup {Inf, NaN}
\* Values a job can have logged for train_<metric> and test_<metric>: the ends
\* of the finite range (the other values are left to val_<metric>; math.inf
\* reaches the train and test losses through a FAILED zero-epoch job).
SideLosses == {Num(0), Num(MaxLoss)}

\* training_run.data.metrics of a finished job: any of the three may be absent.
FullMetrics ==
    {[train |-> a, val |-> b, test |-> c] :
        a \in SideLosses, b \in Losses, c \in SideLosses}
PartialMetrics ==
    {[s \in D |-> Num(0)] : D \in (SUBSET Splits) \ {Splits}}
\* No run fetched.
NoRun == [none |-> Inf]

Triple(a, b, c) == [train |-> a, val |-> b, test |-> c]

\* The run id of the i-th launched job.
RunId(i) == "run" \o ToString(i)
None == "None"

----------------------------------------------------------------------------
ProcessInit ==
    /\ pc = "start"
    /\ max_runs \in 1..MaxRuns
    /\ outer_status = "NONE"
    /\ tmp_exists = FALSE
    /\ jobs = <<>>
    /\ p = 0
    /\ nepochs = 0
    /\ null_loss = Triple(Inf, Inf, Inf)
    /\ return_all = TRUE
    /\ training_run = NoRun
    /\ loss = Triple(Inf, Inf, Inf)
    /\ outer_metrics = <<>>
    /\ results = <<>>
    /\ evals = 0
    /\ returned = <<>>
    /\ best = [train |-> Inf, val |-> Inf, test |-> Inf, run |-> None]
    /\ best_run_file = <<>>
    /\ artifacts = <<>>

\* One execution of train(), before it starts.
Init ==
    /\ ProcessInit
    /\ job_outcome = <<>>
    /\ runs = <<>>

\* --epochs (its default).
Epochs == 500

\* An exception leaves train(): the with-block ends the outer run as FAILED and
\* nothing after the raising statement runs (no artifact, no rmtree).
Raise ==
    /\ pc' = "error"
    /\ outer_status' = "FAILED"

\* Lines 46-48 and 135-144: mkdtemp, start_run, and the call of the null-model
\* eval new_eval(0, experiment_id, inf, inf, inf, True)(params=[0, 0]).
StartRun ==
    /\ pc = "start"
    /\ tmp_exists' = TRUE
    /\ outer_status' = "RUNNING"
    /\ nepochs' = 0
    /\ null_loss' = Triple(Inf, Inf, Inf)
    /\ return_all' = TRUE
    /\ pc' = "launch"
    /\ UNCHANGED <<pair_vars, training_run, max_runs, jobs, p, loss, outer_metrics, results, evals,
                   returned, best, best_run_file, artifacts>>

\* Lines 82-92: mlflow.projects.run starts one job with the closure's nepochs.
Launch ==
    /\ pc = "launch"
    /\ jobs' = Append(jobs, [epochs |-> nepochs, exit |-> "RUNNING", status |-> "RUNNING"])
    /\ p' = Len(jobs) + 1
    /\ pc' = "wait"
    /\ UNCHANGED <<pair_vars, training_run, max_runs, outer_status, tmp_exists, nepochs, null_loss,
                   return_all, loss, outer_metrics, results, evals, returned,
                   best, best_run_file, artifacts>>

\* Lines 82-92: mlflow.projects.run raises (the job cannot be started).
LaunchError ==
    /\ pc = "launch"
    /\ Raise
    /\ UNCHANGED <<pair_vars, training_run, max_runs, tmp_exists, jobs, p, nepochs, null_loss,
                   return_all, loss, outer_metrics, results, evals, returned,
                   best, best_run_file, artifacts>>

\* The training job ends: its process succeeds (the tracked run is FINISHED)
\* or fails (the tracked run is left as it is).
JobExits ==
    /\ pc = "wait"
    /\ jobs[p].exit = "RUNNING"
    /\ \E ok \in BOOLEAN :
         jobs' = [jobs EXCEPT ![p] =
                    IF ok THEN [@ EXCEPT !.exit = "OK", !.status = "FINISHED"]
                    ELSE [@ EXCEPT !.exit = "FAIL"]]
    /\ UNCHANGED <<pair_vars, training_run, pc, max_runs, outer_status, tmp_exists, p, nepochs,
                   null_loss, return_all, loss, outer_metrics, results, evals,
                   returned, best, best_run_file, artifacts>>

\* Wait returning without the job having ended (a poll taken as a failure).
WaitNotBlocking ==
    /\ pc = "wait"
    /\ pc' = IF jobs[p].exit = "OK" THEN "fetch" ELSE "failed"
    /\ UNCHANGED <<pair_vars, training_run, max_runs, outer_status, tmp_exists, jobs, p, nepochs,
                   null_loss, return_all, loss, outer_metrics, results, evals,
                   returned, best, best_run_file, artifacts>>

\* Line 94: p.wait() returns once the job has ended, true iff it succeeded.
Wait ==
    /\ pc = "wait"
    /\ jobs[p].exit # "RUNNING"
    /\ pc' = IF jobs[p].exit = "OK" THEN "fetch" ELSE "failed"
    /\ UNCHANGED <<pair_vars, training_run, max_runs, outer_status, tmp_exists, jobs, p, nepochs,
                   null_loss, return_all, loss, outer_metrics, results, evals,
                   returned, best, best_run_file, artifacts>>

\* CapLoss capping the test loss at the null validation loss.
CapLossWrongNull(null, metrics) ==
    Triple(PyMin(null.train, metrics.train),
           PyMin(null.val, metrics.val),
           PyMin(null.val, metrics.test))

\* Lines 100-106: cap the loss at the loss of the null model.
CapLoss(null, metrics) ==
    Triple(PyMin(null.train, metrics.train),
           PyMin(null.val, metrics.val),
           PyMin(null.test, metrics.test))

\* Line 95: get_run returns the metrics the finished job logged.
GetRun ==
    /\ pc = "fetch"
    /\ training_run' \in FullMetrics \cup PartialMetrics
    /\ pc' = "cap"
    /\ UNCHANGED <<pair_vars, max_runs, outer_status, tmp_exists, jobs, p, nepochs,
                   null_loss, return_all, loss, outer_metrics, results, evals,
                   returned, best, best_run_file, artifacts>>

\* Lines 97-98: get_metric finds the metric of every split.
HasMetrics(run) == Splits \subseteq DOMAIN run

\* Lines 100-106: the three get_metric lookups, each capped.
CapMetrics ==
    /\ pc = "cap"
    /\ HasMetrics(training_run)
    /\ loss' = CapLoss(null_loss, training_run)
    /\ pc' = "log"
    /\ UNCHANGED <<pair_vars, max_runs, outer_status, tmp_exists, jobs, p, nepochs,
                   null_loss, return_all, training_run, outer_metrics, results,
                   evals, returned, best, best_run_file, artifacts>>

\* MetricMissing removing the temporary directory on its way out (a cleanup
\* in a finally clause).
MetricMissingCleaningUp ==
    /\ pc = "cap"
    /\ ~HasMetrics(training_run)
    /\ Raise
    /\ tmp_exists' = FALSE
    /\ results' = <<>>
    /\ UNCHANGED <<pair_vars, max_runs, jobs, p, nepochs, null_loss, return_all,
                   training_run, loss, outer_metrics, evals, returned, best,
                   best_run_file, artifacts>>

\* MetricMissing defaulting the losses to the null loss instead of raising.
MetricMissingDefaulted ==
    /\ pc = "cap"
    /\ ~HasMetrics(training_run)
    /\ loss' = Triple(null_loss.train, null_loss.val, null_loss.test)
    /\ pc' = "log"
    /\ UNCHANGED <<pair_vars, max_runs, outer_status, tmp_exists, jobs, p, nepochs,
                   null_loss, return_all, training_run, outer_metrics, results,
                   evals, returned, best, best_run_file, artifacts>>

\* Lines 97-98: metrics[metric_name] raises KeyError on an absent metric.
MetricMissing ==
    /\ pc = "cap"
    /\ ~HasMetrics(training_run)
    /\ Raise
    /\ UNCHANGED <<pair_vars, max_runs, tmp_exists, jobs, p, nepochs, null_loss,
                   return_all, training_run, loss, outer_metrics, results,
                   evals, returned, best, best_run_file, artifacts>>

\* SetTerminated scoring the failed run as zero loss.
SetTerminatedZero ==
    /\ pc = "failed"
    /\ jobs' = [jobs EXCEPT ![p].status = "FAILED"]
    /\ loss' = Triple(Num(0), Num(0), Num(0))
    /\ pc' = "log"
    /\ UNCHANGED <<pair_vars, training_run, max_runs, outer_status, tmp_exists, p, nepochs,
                   null_loss, return_all, outer_metrics, results, evals,
                   returned, best, best_run_file, artifacts>>

\* SetTerminated leaving the tracked run as it is (no set_terminated call).
SetTerminatedUnmarked ==
    /\ pc = "failed"
    /\ loss' = Triple(null_loss.train, null_loss.val, null_loss.test)
    /\ pc' = "log"
    /\ UNCHANGED <<pair_vars, training_run, max_runs, outer_status, tmp_exists, jobs, p,
                   nepochs, null_loss, return_all, outer_metrics, results,
                   evals, returned, best, best_run_file, artifacts>>

\* SetTerminated scoring the failed run as infinity instead of the null loss.
SetTerminatedInf ==
    /\ pc = "failed"
    /\ jobs' = [jobs EXCEPT ![p].status = "FAILED"]
    /\ loss' = Triple(Inf, Inf, Inf)
    /\ pc' = "log"
    /\ UNCHANGED <<pair_vars, training_run, max_runs, outer_status, tmp_exists, p, nepochs,
                   null_loss, return_all, outer_metrics, results, evals,
                   returned, best, best_run_file, artifacts>>

\* Lines 107-112: run failed => set_terminated(FAILED), return null loss.
SetTerminated ==
    /\ pc = "failed"
    /\ jobs' = [jobs EXCEPT ![p].status = "FAILED"]
    /\ loss' = Triple(null_loss.train, null_loss.val, null_loss.test)
    /\ pc' = "log"
    /\ UNCHANGED <<pair_vars, training_run, max_runs, outer_status, tmp_exists, p, nepochs, null_loss,
                   return_all, outer_metrics, results, evals, returned, best,
                   best_run_file, artifacts>>

\* Lines 114-116: the three log_metric calls on the outer run.
LoggedMetrics(l) == <<<<"train", l.train>>, <<"val", l.val>>, <<"test", l.test>>>>

LogMetrics ==
    /\ pc = "log"
    /\ outer_metrics' = outer_metrics \o LoggedMetrics(loss)
    /\ pc' = "append"
    /\ UNCHANGED <<pair_vars, training_run, max_runs, outer_status, tmp_exists, jobs, p, nepochs,
                   null_loss, return_all, loss, results, evals, returned, best,
                   best_run_file, artifacts>>

\* Lines 119-122: the line written for a run, as line.split(" ") reads it back.
ResultLine(i, l) == <<RunId(i), FloatStr(l.train), FloatStr(l.val), FloatStr(l.test)>>

\* AppendRecord opening the results file with "w": the file is overwritten.
AppendRecordTruncating ==
    /\ pc = "append"
    /\ results' = <<ResultLine(p, loss)>>
    /\ pc' = "return"
    /\ UNCHANGED <<pair_vars, training_run, max_runs, outer_status, tmp_exists, jobs, p,
                   nepochs, null_loss, return_all, loss, outer_metrics, evals,
                   returned, best, best_run_file, artifacts>>

\* AppendRecord writing a line for the budgeted trials only.
AppendRecordTrialsOnly ==
    /\ pc = "append"
    /\ results' = IF return_all THEN results ELSE Append(results, ResultLine(p, loss))
    /\ pc' = "return"
    /\ UNCHANGED <<pair_vars, training_run, max_runs, outer_status, tmp_exists, jobs, p,
                   nepochs, null_loss, return_all, loss, outer_metrics, evals,
                   returned, best, best_run_file, artifacts>>

\* Lines 118-122: open(results_path, "a") and write one line.
AppendRecord ==
    /\ pc = "append"
    /\ results' = Append(results, ResultLine(p, loss))
    /\ pc' = "return"
    /\ UNCHANGED <<pair_vars, training_run, max_runs, outer_status, tmp_exists, jobs, p, nepochs,
                   null_loss, return_all, loss, outer_metrics, evals, returned,
                   best, best_run_file, artifacts>>

\* ReturnNull with log_artifact(results_path, ...) placed before the search.
ReturnNullLoggingArtifact ==
    /\ pc = "return"
    /\ return_all
    /\ null_loss' = Triple(loss.train, loss.val, loss.test)
    /\ nepochs' = Epochs
    /\ return_all' = FALSE
    /\ artifacts' = Append(artifacts, [dir |-> "training_runs", content |-> results])
    /\ pc' = "launch"
    /\ training_run' = NoRun
    /\ UNCHANGED <<pair_vars, max_runs, outer_status, tmp_exists, jobs, p, loss,
                   outer_metrics, results, evals, returned, best,
                   best_run_file>>

\* Lines 123-124 and 139-152: the null-model eval returns its three losses,
\* which become the null losses of the eval handed to fmin; fmin makes its
\* first objective call.
ReturnNull ==
    /\ pc = "return"
    /\ return_all
    /\ null_loss' = Triple(loss.train, loss.val, loss.test)
    /\ nepochs' = Epochs
    /\ return_all' = FALSE
    /\ pc' = "launch"
    /\ training_run' = NoRun
    /\ UNCHANGED <<pair_vars, max_runs, outer_status, tmp_exists, jobs, p, loss,
                   outer_metrics, results, evals, returned, best,
                   best_run_file, artifacts>>

\* BudgetLeft letting fmin make one objective call too many.
BudgetLeftOffByOne(n) == n <= max_runs

\* Lines 145-152: fmin stops after max_evals objective calls.
BudgetLeft(n) == n < max_runs

\* ReturnTrial returning the raw validation metric of a succeeded job.
ReturnTrialRawValue ==
    /\ pc = "return"
    /\ ~return_all
    /\ returned' = Append(returned, IF HasMetrics(training_run)
                                    THEN training_run.val ELSE loss.val)
    /\ evals' = evals + 1
    /\ pc' = IF BudgetLeft(evals + 1) THEN "launch" ELSE "aggregate"
    /\ training_run' = NoRun
    /\ UNCHANGED <<pair_vars, max_runs, outer_status, tmp_exists, jobs, p, nepochs,
                   null_loss, return_all, loss, outer_metrics, results, best,
                   best_run_file, artifacts>>

\* ReturnTrial lowering the cap to the losses of the trial that just returned.
ReturnTrialRecapping ==
    /\ pc = "return"
    /\ ~return_all
    /\ returned' = Append(returned, loss.val)
    /\ evals' = evals + 1
    /\ null_loss' = Triple(loss.train, loss.val, loss.test)
    /\ pc' = IF BudgetLeft(evals + 1) THEN "launch" ELSE "aggregate"
    /\ training_run' = NoRun
    /\ UNCHANGED <<pair_vars, max_runs, outer_status, tmp_exists, jobs, p, nepochs,
                   return_all, loss, outer_metrics, results, best,
                   best_run_file, artifacts>>

\* Lines 125-126 and 145-152: eval returns valid_loss to fmin, which calls
\* the objective again while the budget lasts and returns otherwise.
ReturnTrial ==
    /\ pc = "return"
    /\ ~return_all
    /\ returned' = Append(returned, loss.val)
    /\ evals' = evals + 1
    /\ pc' = IF BudgetLeft(evals + 1) THEN "launch" ELSE "aggregate"
    /\ training_run' = NoRun
    /\ UNCHANGED <<pair_vars, max_runs, outer_status, tmp_exists, jobs, p, nepochs,
                   null_loss, return_all, loss, outer_metrics, results, best,
                   best_run_file, artifacts>>

\* Lines 153-159: reset the best_* locals and log the results file as an artifact.
LogResultsArtifact ==
    /\ pc = "aggregate"
    /\ best' = [train |-> Inf, val |-> Inf, test |-> Inf, run |-> None]
    /\ artifacts' = Append(artifacts, [dir |-> "training_runs", content |-> results])
    /\ pc' = "scan"
    /\ UNCHANGED <<pair_vars, training_run, max_runs, outer_status, tmp_exists, jobs, p, nepochs,
                   null_loss, return_all, loss, outer_metrics, results, evals,
                   returned, best_run_file>>

\* Lines 162-168: one iteration of the scan: a line replaces the best so far
\* only when its validation loss is strictly smaller.
ScanLine(b, line) ==
    LET val == ParseFloat(line[3])
    IN  IF Lt(val, b.val)
        THEN [train |-> ParseFloat(line[2]), val |-> val,
              test |-> ParseFloat(line[4]), run |-> line[1]]
        ELSE b

\* Lines 160-168: for line in f.readlines().
RECURSIVE ScanFrom(_, _, _)
ScanFrom(lines, i, b) ==
    IF i > Len(lines) THEN b
    ELSE ScanFrom(lines, i + 1, ScanLine(b, lines[i]))

ScanResults ==
    /\ pc = "scan"
    /\ best' = ScanFrom(results, 1, best)
    /\ pc' = "write_best"
    /\ UNCHANGED <<pair_vars, training_run, max_runs, outer_status, tmp_exists, jobs, p, nepochs,
                   null_loss, return_all, loss, outer_metrics, results, evals,
                   returned, best_run_file, artifacts>>

\* Lines 169-173: write best_run.txt and log it as the best-run artifact.
BestRunLine(b) == <<b.run, FloatStr(b.val)>>

WriteBestRun ==
    /\ pc = "write_best"
    /\ best_run_file' = BestRunLine(best)
    /\ artifacts' = Append(artifacts, [dir |-> "best-run", content |-> <<BestRunLine(best)>>])
    /\ pc' = "final"
    /\ UNCHANGED <<pair_vars, training_run, max_runs, outer_status, tmp_exists, jobs, p, nepochs,
                   null_loss, return_all, loss, outer_metrics, results, evals,
                   returned, best>>

\* Lines 174-177: log the best losses on the outer run, remove the temporary
\* directory (the results file with it), and leave the with-block.
Finish ==
    /\ pc = "final"
    /\ outer_metrics' = outer_metrics \o
           LoggedMetrics([train |-> best.train, val |-> best.val, test |-> best.test])
    /\ tmp_exists' = FALSE
    /\ results' = <<>>
    /\ best_run_file' = <<>>
    /\ outer_status' = "FINISHED"
    /\ pc' = "done"
    /\ UNCHANGED <<pair_vars, training_run, max_runs, jobs, p, nepochs, null_loss, return_all, loss,
                   evals, returned, best, artifacts>>

Next ==
    \/ StartRun
    \/ Launch
    \/ LaunchError
    \/ JobExits
    \/ Wait
    \/ GetRun
    \/ CapMetrics
    \/ MetricMissing
    \/ SetTerminated
    \/ LogMetrics
    \/ AppendRecord
    \/ ReturnNull
    \/ ReturnTrial
    \/ LogResultsArtifact
    \/ ScanResults
    \/ WriteBestRun
    \/ Finish

Spec == Init /\ [][Next]_vars

\* The steps of the train() process itself: every action but the end of the
\* external job. The interpreter runs the next statement whenever there is one.
ProgramStep ==
    \/ StartRun
    \/ Launch
    \/ LaunchError
    \/ Wait
    \/ GetRun
    \/ CapMetrics
    \/ MetricMissing
    \/ SetTerminated
    \/ LogMetrics
    \/ AppendRecord
    \/ ReturnNull
    \/ ReturnTrial
    \/ LogResultsArtifact
    \/ ScanResults
    \/ WriteBestRun
    \/ Finish

\* The single-threaded process keeps running; nothing is assumed of the jobs.
LiveSpec == Spec /\ WF_vars(ProgramStep)

----------------------------------------------------------------------------
(* Two executions of train() side by side, with the same command line (the *)
(* same --seed, --max-runs and --algo random) and the same training job:   *)
(* job_outcome fixes, for this seed, what the job of each parameter vector *)
(* does. Each evaluation is taken as one step.                             *)

\* Number of candidate vectors <<lr, momentum>> of the search space.
MaxParams == 2

\* Lines 130-133: the vectors rand.suggest can draw; 0 stands for the
\* params=[0, 0] of the zero-epoch evaluation (line 144).
Params == 1..MaxParams

\* What a job does: p.wait() and, when it succeeded, the metrics it logged.
JobOutcomes ==
    {[exit |-> "FAIL", metrics |-> NoRun]} \cup
    {[exit |-> "OK", metrics |-> Triple(Num(n), Num(n), Num(n))] : n \in 0..MaxLoss}

process_vars == <<pc, max_runs, outer_status, tmp_exists, jobs, p, nepochs,
                  null_loss, return_all, training_run, loss, outer_metrics,
                  results, evals, returned, best, best_run_file, artifacts>>

NewRun ==
    [pc |-> "null", proposed |-> <<>>, null_loss |-> Triple(Inf, Inf, Inf),
     results |-> <<>>,
     best |-> [train |-> Inf, val |-> Inf, test |-> Inf, run |-> None]]

PairInit ==
    /\ ProcessInit
    /\ job_outcome \in [0..MaxParams -> JobOutcomes]
    /\ runs = [r \in {1, 2} |-> NewRun]

\* Lines 94-112: the losses of an evaluation, from what its job did.
EvalLoss(outcome, null) ==
    IF outcome.exit = "OK" THEN CapLoss(null, outcome.metrics)
    ELSE Triple(null.train, null.val, null.test)

\* Lines 139-144: the zero-epoch evaluation of run r.
PairNullEval(r) ==
    /\ runs[r].pc = "null"
    /\ LET l == EvalLoss(job_outcome[0], Triple(Inf, Inf, Inf))
       IN  runs' = [runs EXCEPT ![r] =
                      [@ EXCEPT !.null_loss = l,
                                !.results = Append(@, ResultLine(1, l)),
                                !.pc = "search"]]
    /\ UNCHANGED <<process_vars, job_outcome>>

\* Lines 145-152: fmin is given fn, space, algo and max_evals, and no random
\* state: the seed goes to the training job only (line 90), so the vector
\* fmin proposes is any vector of the space.
PairTrialEval(r) ==
    /\ runs[r].pc = "search"
    /\ \E params \in Params :
         LET l == EvalLoss(job_outcome[params], runs[r].null_loss)
             n == Len(runs[r].proposed) + 1
         IN  runs' = [runs EXCEPT ![r] =
                        [@ EXCEPT !.proposed = Append(@, params),
                                  !.results = Append(@, ResultLine(n + 1, l)),
                                  !.pc = IF BudgetLeft(n) THEN "search" ELSE "aggregate"]]
    /\ UNCHANGED <<process_vars, job_outcome>>

\* Lines 153-168: the scan of run r.
PairAggregate(r) ==
    /\ runs[r].pc = "aggregate"
    /\ runs' = [runs EXCEPT ![r] =
                  [@ EXCEPT !.best = ScanFrom(runs[r].results, 1, runs[r].best),
                            !.pc = "done"]]
    /\ UNCHANGED <<process_vars, job_outcome>>

PairNext ==
    \E r \in {1, 2} :
        \/ PairNullEval(r)
        \/ PairTrialEval(r)
        \/ PairAggregate(r)

PairSpec == PairInit /\ [][PairNext]_vars

----------------------------------------------------------------------------
(* Properties.                                                             *)

\* a <= b on floats: false whenever an operand is NaN.
Le(a, b) ==
    /\ a.kind # "nan"
    /\ b.kind # "nan"
    /\ (Lt(a, b) \/ a = b)

\* The record a line of the results file holds.
RecordOf(line) ==
    [run |-> line[1], train |-> ParseFloat(line[2]),
     val |-> ParseFloat(line[3]), test |-> ParseFloat(line[4])]

RecordLosses(line) == Triple(RecordOf(line).train, RecordOf(line).val, RecordOf(line).test)

\* The job a record belongs to.
JobOfRun(run) == CHOOSE i \in DOMAIN jobs : RunId(i) = run

\* eval is past the branch on p.wait() (its losses are set).
Evaluated == pc \in {"log", "append", "return"}

\* train() is past fmin.
SearchOver == pc \in {"aggregate", "scan", "write_best", "final", "done"}

\* C1: every record of the results log has a validation loss less than or
\* equal to the null (Baseline) validation loss of the eval that wrote it, and
\* to the Baseline of the search once it is set; no record holds NaN.
C1_RecordsCappedAtBaseline ==
    \A i \in DOMAIN results : Le(RecordOf(results[i]).val, null_loss.val)

\* C1 witness: a budgeted trial whose raw validation metric exceeded the
\* Baseline, or was NaN, has been recorded after an earlier trial.
C1_Witness ==
    /\ pc = "return"
    /\ ~return_all
    /\ Len(results) >= 3
    /\ HasMetrics(training_run)
    /\ null_loss.val = Num(0)
    /\ training_run.val \in {Num(1), NaN}

\* C2: a FAILED job is a normal outcome: its tracked run is set to FAILED, its
\* losses and its record equal the null (Baseline) triple, exactly one record
\* is written for it, the Baseline validation loss is returned to fmin, and
\* fmin goes on (next objective call while the budget lasts, no error).
C2_State ==
    (Evaluated /\ jobs[p].exit = "FAIL") =>
        /\ jobs[p].status = "FAILED"
        /\ loss = null_loss
        /\ pc = "return" =>
             /\ Cardinality({i \in DOMAIN results : results[i][1] = RunId(p)}) = 1
             /\ results[Len(results)][1] = RunId(p)
             /\ RecordLosses(results[Len(results)]) = null_loss

C2_Step ==
    (pc = "return" /\ ~return_all /\ jobs[p].exit = "FAIL") =>
        /\ returned' = Append(returned, null_loss.val)
        /\ pc' = IF evals + 1 < max_runs THEN "launch" ELSE "aggregate"

C2_Wait ==
    (pc = "wait" /\ jobs[p].exit = "FAIL") => pc' \in {"wait", "failed"}

C2_FailedTrialIsBaseline == [](C2_State) /\ [][C2_Step /\ C2_Wait]_vars

\* C2 witness: after a failed budgeted trial under a finite Baseline, fmin is
\* about to launch the next candidate.
C2_Witness ==
    /\ pc = "launch"
    /\ evals >= 1
    /\ jobs[p].exit = "FAIL"
    /\ jobs[p].epochs = Epochs
    /\ null_loss.val = Num(1)
    /\ returned[Len(returned)] = Num(1)

\* C3 as claimed: when the log is aggregated it holds exactly max_runs records,
\* each of a job run under the search budget (none of the zero-epoch job).
C3_BaselineNotLogged ==
    pc = "scan" =>
        /\ Len(results) = max_runs
        /\ \A i \in DOMAIN results : jobs[JobOfRun(results[i][1])].epochs # 0

\* C3 amended: the zero-epoch evaluation writes the first record of the log;
\* when the log is aggregated it holds exactly max_runs + 1 records, the first
\* of the zero-epoch job and the others of the budgeted trials, in order.
C3_BaselineIsFirstRecord ==
    pc \in {"aggregate", "scan", "write_best", "final"} =>
        /\ Len(results) = max_runs + 1
        /\ \A i \in DOMAIN results :
             /\ results[i][1] = RunId(i)
             /\ jobs[i].epochs = IF i = 1 THEN 0 ELSE Epochs

\* C3 witness: the scan is about to read a log of a full budget.
C3_Witness ==
    /\ pc = "scan"
    /\ max_runs = MaxRuns
    /\ Len(results) = MaxRuns + 1

\* C4 as claimed: a finished aggregation names, in best_run.txt, the run id of
\* a record of the log together with that record's validation loss: never
\* None, never the initial math.inf placeholder of a record-less best.
C4_SummaryNamesARecord ==
    pc = "final" =>
        \E i \in DOMAIN results :
            /\ best_run_file[1] = results[i][1]
            /\ best_run_file[2] = results[i][3]

\* C5 as claimed: the scan selects the earliest record among those of minimal
\* validation loss over the whole log.
IsFirstMinimal(i) ==
    /\ i \in DOMAIN results
    /\ \A j \in DOMAIN results :
         /\ Le(RecordOf(results[i]).val, RecordOf(results[j]).val)
         /\ j < i => RecordOf(results[j]).val # RecordOf(results[i]).val

C5_SelectsFirstMinimum ==
    pc = "write_best" =>
        \E i \in DOMAIN results :
            /\ IsFirstMinimal(i)
            /\ best = [run |-> results[i][1], train |-> RecordOf(results[i]).train,
                       val |-> RecordOf(results[i]).val, test |-> RecordOf(results[i]).test]

\* The minimum of a raw metric and the null loss of its split: the one of the
\* two that is <= both; a NaN metric is unordered and leaves the null loss.
MinOf(raw, null) ==
    IF raw.kind = "nan" THEN null
    ELSE CHOOSE v \in {raw, null} : Le(v, raw) /\ Le(v, null)

\* C6: for a succeeded job each of train_loss, valid_loss and test_loss is the
\* minimum of the metric fetched for that split and the null loss of that
\* same split, and these are the three values of the record written for it.
C6_PerSplitMinimum ==
    (Evaluated /\ jobs[p].exit = "OK") =>
        /\ loss.train = MinOf(training_run.train, null_loss.train)
        /\ loss.val = MinOf(training_run.val, null_loss.val)
        /\ loss.test = MinOf(training_run.test, null_loss.test)
        /\ pc = "return" => RecordLosses(results[Len(results)]) = loss

\* C6 witness: a recorded budgeted trial whose train metric is capped while
\* its validation and test metrics are kept.
C6_Witness ==
    /\ pc = "return"
    /\ ~return_all
    /\ jobs[p].exit = "OK"
    /\ null_loss = Triple(Num(0), Num(1), Num(1))
    /\ training_run = Triple(Num(1), Num(0), Num(0))
    /\ loss = Triple(Num(0), Num(0), Num(0))

\* C7: fmin never launches more than max_runs budgeted jobs, and when it has
\* returned the objective was called exactly max_runs times and max_runs + 1
\* jobs were launched: one with zero epochs and max_runs with --epochs.
C7_ExactBudget ==
    /\ evals <= max_runs
    /\ Len(jobs) <= max_runs + 1
    /\ SearchOver =>
         /\ evals = max_runs
         /\ Len(returned) = max_runs
         /\ Len(jobs) = max_runs + 1
         /\ Cardinality({i \in DOMAIN jobs : jobs[i].epochs = 0}) = 1
         /\ Cardinality({i \in DOMAIN jobs : jobs[i].epochs = Epochs}) = max_runs

\* C7 witness: a search of the largest budget has finished.
C7_Witness ==
    /\ pc = "done"
    /\ max_runs = MaxRuns
    /\ Len(jobs) = MaxRuns + 1

\* C8: an eval that returns has written exactly one record, with its run id,
\* at the end of the log; the records are in the order of the evaluations;
\* and while the file exists a step leaves it as it is or appends this one
\* record, leaving the earlier records in place.
C8_State ==
    /\ \A i \in DOMAIN results : results[i][1] = RunId(i)
    /\ pc = "return" =>
         /\ Len(results) = p
         /\ results[p] = ResultLine(p, loss)
    /\ pc \in {"wait", "fetch", "cap", "failed", "log", "append"} => Len(results) = p - 1

C8_Step ==
    pc # "final" =>
        \/ results' = results
        \/ /\ pc = "append"
           /\ results' = Append(results, ResultLine(p, loss))

C8_AppendOnlyInOrder == [](C8_State) /\ [][C8_Step]_vars

\* C8 witness: the second budgeted trial has appended the third record.
C8_Witness ==
    /\ pc = "return"
    /\ Len(results) = 3
    /\ results[3][1] = RunId(3)
    /\ results[2][3] # results[3][3]

\* C9: only one zero-epoch job is ever launched; a budgeted job is launched
\* only after the zero-epoch eval has returned; the null losses of the eval
\* given to fmin are the losses that eval recorded; and they never change
\* once fmin runs.
C9_State ==
    /\ Cardinality({i \in DOMAIN jobs : jobs[i].epochs = 0}) <= 1
    /\ (\E i \in DOMAIN jobs : jobs[i].epochs # 0) =>
         /\ ~return_all
         /\ jobs[1].epochs = 0
         /\ jobs[1].exit # "RUNNING"
         /\ Len(results) >= 1 => RecordLosses(results[1]) = null_loss

C9_Step ==
    ~return_all => (~return_all' /\ null_loss' = null_loss)

C9_BaselineOnceAndFixed == [](C9_State) /\ [][C9_Step]_vars

\* C9 witness: the second budgeted trial runs under a finite Baseline that an
\* earlier trial has beaten.
C9_Witness ==
    /\ pc = "wait"
    /\ evals = 1
    /\ null_loss = Triple(Num(1), Num(1), Num(1))
    /\ returned = <<Num(0)>>

\* C10: a launch that raises, or a succeeded job lacking a metric, ends in the
\* error state, from which no step is taken (no later launch); no record and
\* no outer metric exists for the trial that raised, and no artifact and no
\* best_run.txt was produced.
C10_State ==
    pc = "error" =>
        /\ artifacts = <<>>
        /\ best_run_file = <<>>
        /\ outer_status = "FAILED"
        /\ \A i \in DOMAIN results : results[i][1] = RunId(i)
        /\ Len(outer_metrics) = 3 * Len(results)
        /\ Len(results) = IF training_run = NoRun THEN Len(jobs) ELSE Len(jobs) - 1

C10_Step ==
    /\ pc = "error" => UNCHANGED vars
    /\ (pc = "cap" /\ ~HasMetrics(training_run)) =>
           (pc' = "error" /\ results' = results /\ loss' = loss)

C10_FatalErrorStopsSearch == [](C10_State) /\ [][C10_Step]_vars

\* C10 witness: a budgeted trial's job succeeded without its metrics and the
\* search has stopped with the earlier records only.
C10_Witness ==
    /\ pc = "error"
    /\ training_run # NoRun
    /\ Len(jobs) = 3
    /\ Len(results) = 2

\* C10 witness of the other fatal error: the launch of a budgeted trial raised.
C10_WitnessLaunch ==
    /\ pc = "error"
    /\ training_run = NoRun
    /\ Len(jobs) = 2

\* The line evaluation i wrote, rebuilt from the three metrics it logged on
\* the outer run before writing.
LoggedLine(i) ==
    <<RunId(i), FloatStr(outer_metrics[3 * i - 2][2]),
      FloatStr(outer_metrics[3 * i - 1][2]), FloatStr(outer_metrics[3 * i][2])>>

\* C11 as claimed: when the search has stopped on a fatal error, the partial
\* results log has been logged as the training_runs artifact.
C11_PartialLogIsArtifact ==
    (pc = "error" /\ results # <<>>) =>
        \E k \in DOMAIN artifacts :
            /\ artifacts[k].dir = "training_runs"
            /\ artifacts[k].content = results

\* C11 amended: when the search has stopped on a fatal error, the results file
\* is left in the temporary directory, which is not removed, and holds the
\* records of all evaluations completed before the error (the zero-epoch one
\* first); nothing has been logged as an artifact.
C11_PartialLogLeftInTmp ==
    pc = "error" =>
        /\ tmp_exists
        /\ artifacts = <<>>
        /\ 3 * Len(results) = Len(outer_metrics)
        /\ Len(results) >= Len(jobs) - 1
        /\ \A i \in DOMAIN results : results[i] = LoggedLine(i)

\* C11 witness: the search stopped on a missing metric of the second budgeted
\* trial, with the two earlier records on disk.
C11_Witness ==
    /\ pc = "error"
    /\ tmp_exists
    /\ Len(jobs) = 3
    /\ jobs[3].exit = "OK"
    /\ Len(results) = 2

\* eval is blocked in p.wait() on a job that has not ended.
Blocked == pc = "wait" /\ jobs[p].exit = "RUNNING"

BestRunLogged == \E k \in DOMAIN artifacts : artifacts[k].dir = "best-run"

C13_BlockedStep ==
    Blocked =>
        /\ pc' = "wait"
        /\ Len(jobs') = Len(jobs)
        /\ artifacts' = artifacts
        /\ best_run_file' = best_run_file

\* C13: unless a fatal error occurs or a job stays running forever, train()
\* eventually finishes, with the best-run summary logged, whatever the number
\* of FAILED jobs; while a job has not ended, eval stays in p.wait(): no job is
\* launched and no summary is written.
C13_FinishesUnlessBlocked ==
    /\ <>(pc = "done") \/ <>(pc = "error") \/ <>[]Blocked
    /\ [](pc = "done" => BestRunLogged)
    /\ [][C13_BlockedStep]_vars

\* C13 witness: a search of the largest budget has finished although the
\* zero-epoch job and every trial FAILED.
C13_Witness ==
    /\ pc = "done"
    /\ max_runs = MaxRuns
    /\ \A i \in DOMAIN jobs : jobs[i].exit = "FAIL"
    /\ BestRunLogged

\* The results file has been read: logged as an artifact or scanned.
LogRead == artifacts # <<>> \/ pc \in {"scan", "write_best", "final", "done"}

C14_State ==
    /\ pc = "aggregate" =>
         /\ artifacts = <<>>
         /\ evals = max_runs
         /\ Len(results) = Len(jobs)
    /\ pc \in {"scan", "write_best", "final"} =>
         /\ artifacts[1] = [dir |-> "training_runs", content |-> results]
         /\ Len(results) = max_runs + 1
         /\ \A i \in DOMAIN jobs : results[i] = LoggedLine(i)
    /\ pc \in {"write_best", "final"} =>
         best = ScanFrom(artifacts[1].content, 1,
                         [train |-> Inf, val |-> Inf, test |-> Inf, run |-> None])

C14_Step == LogRead => (results' = results \/ pc = "final")

\* C14: the results file is logged as an artifact and scanned only when fmin
\* has made all max_runs objective calls and every launched job has its
\* record; from then on no line is written (the file is only removed at the
\* end), so the artifact and the scan hold every record of the search.
C14_ReadersAfterWriters == [](C14_State) /\ [][C14_Step]_vars

\* C14 witness: the artifact of a search of the largest budget has been logged
\* with all its records and the scan is about to start.
C14_Witness ==
    /\ pc = "scan"
    /\ Len(artifacts) = 1
    /\ Len(artifacts[1].content) = MaxRuns + 1
    /\ artifacts[1].content[MaxRuns + 1][3] = "0.0"

\* The last three metrics logged on the outer run.
FinalMetrics == SubSeq(outer_metrics, Len(outer_metrics) - 2, Len(outer_metrics))

\* C15 as claimed: when train() has finished, the three final metrics of the
\* outer run and the run id and validation loss of the best-run summary are
\* the values of one and the same record of the logged results file.
C15_OutcomeFromOneRecord ==
    pc = "done" =>
        \E i \in DOMAIN artifacts[1].content :
            LET rec == RecordOf(artifacts[1].content[i])
            IN  /\ FinalMetrics = LoggedMetrics(Triple(rec.train, rec.val, rec.test))
                /\ artifacts[2] = [dir |-> "best-run",
                                   content |-> <<<<rec.run, FloatStr(rec.val)>>>>]

\* C18 as claimed: when train() has finished and no budgeted trial recorded a
\* validation loss strictly below that of the first record (the zero-epoch
\* job's, the Baseline), the best-run summary names the zero-epoch job.
C18_BaselineJobIsBest ==
    LET log == artifacts[1].content
    IN  (/\ pc = "done"
         /\ \A i \in DOMAIN log : ~Lt(RecordOf(log[i]).val, RecordOf(log[1]).val))
        => artifacts[2].content[1][1] = RunId(1)

\* C16: fmin has received one value per objective call, a single float, and
\* the k-th of them is the validation loss of the record that call appended
\* (line k + 1 of the file, after the zero-epoch record).
C16_ReturnedIsRecordedVal ==
    pc # "done" =>
        /\ Len(returned) = evals
        /\ \A k \in DOMAIN returned :
             /\ k + 1 <= Len(results)
             /\ returned[k] \in {Num(n) : n \in 0..MaxLoss} \cup {Inf}
             /\ returned[k] = RecordOf(results[k + 1]).val

\* C16 witness: two budgeted evaluations returned different values under a
\* finite Baseline, the first one capped at the Baseline (1), the second not.
C16_Witness ==
    /\ pc = "aggregate"
    /\ null_loss.val = Num(1)
    /\ returned = <<Num(1), Num(0)>>
    /\ jobs[2].exit = "OK"

\* The successive positions of one evaluation.
EvalOrder ==
    {<<"launch", "wait">>, <<"launch", "error">>, <<"wait", "wait">>,
     <<"wait", "fetch">>, <<"wait", "failed">>, <<"fetch", "cap">>,
     <<"cap", "log">>, <<"cap", "error">>, <<"failed", "log">>,
     <<"log", "append">>, <<"append", "return">>,
     <<"return", "launch">>, <<"return", "aggregate">>}

C17_State ==
    /\ \A i \in DOMAIN results :
         /\ 3 * i <= Len(outer_metrics)
         /\ SubSeq(outer_metrics, 3 * i - 2, 3 * i) = LoggedMetrics(RecordLosses(results[i]))
         /\ jobs[i].exit # "RUNNING"
         /\ jobs[i].exit = "FAIL" => jobs[i].status = "FAILED"
    /\ pc \in {"fetch", "cap"} => jobs[p].exit = "OK"
    /\ pc = "failed" => jobs[p].exit = "FAIL"
    /\ pc = "append" => Len(outer_metrics) = 3 * Len(results) + 3

C17_Step ==
    /\ pc \in {"launch", "wait", "fetch", "cap", "failed", "log", "append", "return"}
         => <<pc, pc'>> \in EvalOrder
    /\ Len(results') > Len(results) => (pc = "append" /\ outer_metrics' = outer_metrics)
    /\ Len(outer_metrics') > Len(outer_metrics) =>
         (pc \in {"log", "final"} /\ results' = IF pc = "log" THEN results ELSE <<>>)

\* C17: an evaluation goes through launch, wait, (fetch and cap | mark
\* FAILED), log the three losses on the outer run, append the record, return,
\* in this order: every record of the file was preceded by the logging of its
\* three values on the outer run, its job had ended, and a failed job's run
\* was marked FAILED before its record was written.
C17_EvalStepOrder == [](C17_State) /\ [][C17_Step]_vars

\* C17 witness: the record of a failed budgeted trial has just been written,
\* after its three losses were logged and its run was marked FAILED.
C17_Witness ==
    /\ pc = "return"
    /\ ~return_all
    /\ jobs[p].exit = "FAIL"
    /\ jobs[p].status = "FAILED"
    /\ Len(results) = p
    /\ Len(outer_metrics) = 3 * p
    /\ null_loss.val = Num(0)

\* The zero-epoch job exited FAILED.
NullJobFailed == Len(jobs) >= 1 /\ jobs[1].exit = "FAIL"

\* A budgeted trial is past the branch on p.wait().
TrialEvaluated == Evaluated /\ ~return_all

\* C19 as claimed: after a FAILED zero-epoch job every succeeded trial has its
\* raw metrics as losses, and as record.
C19_RawLossesRecorded ==
    (NullJobFailed /\ TrialEvaluated /\ jobs[p].exit = "OK") =>
        /\ loss = training_run
        /\ pc = "return" => RecordLosses(results[Len(results)]) = training_run

\* What min(math.inf, raw) keeps of a raw metric.
UncappedLoss(raw) == IF raw.kind = "nan" THEN Inf ELSE raw

C19_State ==
    NullJobFailed =>
        /\ pc # "error" \/ 1 \in DOMAIN results
        /\ 1 \in DOMAIN results => RecordLosses(results[1]) = Triple(Inf, Inf, Inf)
        /\ ~return_all => null_loss = Triple(Inf, Inf, Inf)
        /\ (TrialEvaluated /\ jobs[p].exit = "OK") =>
             /\ loss = Triple(UncappedLoss(training_run.train),
                              UncappedLoss(training_run.val),
                              UncappedLoss(training_run.test))
             /\ pc = "return" => RecordLosses(results[Len(results)]) = loss
        /\ (TrialEvaluated /\ jobs[p].exit = "FAIL") =>
             /\ loss = Triple(Inf, Inf, Inf)
             /\ pc = "return" => RecordLosses(results[Len(results)]) = loss

C19_Step ==
    (pc = "return" /\ return_all /\ jobs[p].exit = "FAIL") =>
        (pc' = "launch" /\ nepochs' = Epochs)

\* C19 amended: a FAILED zero-epoch job does not abort the search: the
\* Baseline becomes infinity for train, validation and test, the budgeted
\* trials still run, every succeeded trial is recorded with its raw uncapped
\* losses except that a NaN metric is recorded as infinity, and every failed
\* trial is recorded with infinite losses.
C19_FailedBaselineIsInfinity == [](C19_State) /\ [][C19_Step]_vars

\* C19 witness: after a FAILED zero-epoch job, a succeeded trial that logged a
\* NaN validation metric has been recorded with its finite train and test
\* metrics and an infinite validation loss.
C19_Witness ==
    /\ NullJobFailed
    /\ pc = "return"
    /\ ~return_all
    /\ jobs[p].exit = "OK"
    /\ training_run = Triple(Num(1), NaN, Num(0))
    /\ results[Len(results)] = <<RunId(p), "1.0", "inf", "0.0">>

\* C12 as claimed: two runs with the same seed, budget and algorithm random,
\* over jobs that do the same for the same parameter vector, have proposed the
\* same sequence of parameter vectors and end with the same best record.
C12_SameSeedSameSearch ==
    (runs[1].pc = "done" /\ runs[2].pc = "done") =>
        /\ runs[1].proposed = runs[2].proposed
        /\ runs[1].best = runs[2].best

====
